---- MODULE Spec2Model ----
(***************************************************************************)
(* Model of network-test-suite.py: the NetworkPerformanceTester class.     *)
(*                                                                         *)
(* The program is single-threaded.  Its state is the tester object (the    *)
(* constructor arguments, the tool-availability flags, system_info and     *)
(* the result list), the file system it writes to, the console, and the    *)
(* position of the one thread of control (pc).  External tools are the     *)
(* environment: every invocation draws the tool's behaviour from a small   *)
(* set of outcomes (exit status, output shape, hang, interrupt).           *)
(*                                                                         *)
(* Python values: a dict is a TLA+ record whose DOMAIN is the dict's key   *)
(* set, so `k in d` is k \in DOMAIN d; None is the definition None; a      *)
(* float is a natural number (measurements are chosen so that the          *)
(* divisions of the code are exact, and a mean or a square root is         *)
(* truncated to a natural).                                                *)
(***************************************************************************)
EXTENDS Integers, Sequences, FiniteSets, TLC

\* ------------------------------------------------------------------ bounds
\* --iterations is drawn from 0..MaxIterations.
MaxIterations == 3
\* At most MaxDeviations tool invocations of one run behave otherwise than
\* the tool's nominal behaviour (exit 0, well-formed output, nominal value).
MaxDeviations == 1

\* ------------------------------------------------------- program constants
\* Python's None.
None == -1
\* run_latency_jitter_test(host="8.8.8.8", count=100)
PingCount == 100
\* timeout=count+30
PingSlack == 30
\* --time default
Duration == 10
\* timeout=duration+15
IperfSlack == 15
\* speedtest-cli / speedtest timeout
SpeedtestTimeout == 120
\* curl timeout
CurlTimeout == 300
\* run_local_transfer_test(size_mb=100)
SizeMb == 100
\* No timeout= argument was passed to the subprocess call.
NoTimeout == 0

\* ---------------------------------------------------------- Python helpers
\* dict.get(key, default)
Get(d, k, default) == IF k \in DOMAIN d THEN d[k] ELSE default

\* d[k] = v on a dict (adds the key or overwrites it).
SetKey(d, k, v) == [x \in DOMAIN d \cup {k} |-> IF x = k THEN v ELSE d[x]]

RECURSIVE SumSeq(_)
SumSeq(s) == IF s = <<>> THEN 0 ELSE Head(s) + SumSeq(Tail(s))

SeqRange(s) == {s[k] : k \in 1..Len(s)}

MinSeq(s) == CHOOSE m \in SeqRange(s) : \A x \in SeqRange(s) : m <= x

MaxSeq(s) == CHOOSE m \in SeqRange(s) : \A x \in SeqRange(s) : m >= x

Abs(x) == IF x < 0 THEN 0 - x ELSE x

\* statistics.mean, truncated to a natural.
Mean(s) == SumSeq(s) \div Len(s)

\* Largest r with r*r <= n.
ISqrt(n) == CHOOSE r \in 0..n : r * r <= n /\ (r + 1) * (r + 1) > n

\* statistics.stdev: the sample standard deviation (n-1 in the denominator),
\* computed exactly as sqrt((n*sum(x^2) - sum(x)^2) / (n*(n-1))), truncated.
Stdev(s) ==
    LET n == Len(s)
        sq == [k \in 1..n |-> s[k] * s[k]]
    IN ISqrt((n * SumSeq(sq) - SumSeq(s) * SumSeq(s)) \div (n * (n - 1)))

\* format(v, ".2f"): raises TypeError on None.
FormatRaises(v) == v = None

\* -------------------------------------------------------------- the state
VARIABLES
    platform,              \* platform.system()
    iterations,            \* self.iterations
    output_file,           \* self.output_file: a path or None
    iperf_server,          \* self.iperf_server is truthy
    should_run_speedtest,  \* self.should_run_speedtest
    run_local_test,        \* self.run_local_test
    system_info,           \* self.system_info (the interfaces part)
    has_iperf3,            \* self.has_iperf3
    has_speedtest,         \* self.has_speedtest
    results,               \* self.results
    pc,                    \* position of the thread of control
    i,                     \* loop variable of run_tests
    iteration_results,     \* the dict run_tests is filling
    calls,                 \* external processes started by the current call
    devs,                  \* deviations from nominal tool behaviour so far
    exc,                   \* exception that left the program, or "none"
    console,               \* what was printed (the lines the claims name)
    files,                 \* the file system: path -> content
    summary,               \* the statistics blocks _print_summary printed
    temp_file,             \* the temporary file of the local test exists
    server,                \* state of the http.server process
    lt                     \* run_local_transfer_test: pending exception/return

config == <<platform, iterations, output_file, iperf_server,
            should_run_speedtest, run_local_test>>

tester == <<system_info, has_iperf3, has_speedtest, results>>

local == <<temp_file, server, lt>>

vars == <<config, tester, pc, i, iteration_results, calls, devs, exc,
          console, files, summary, local>>

\* ------------------------------------------------------------------ paths
\* A path is a sequence of pieces; ".csv" is the piece str.replace looks for.
CsvPath == <<"results", ".csv">>
TxtPath == <<"results", ".txt">>
OutputFiles == {CsvPath, TxtPath}

\* str.replace(old, new): every occurrence of the piece is replaced.
Replace(path, old, new) ==
    [k \in 1..Len(path) |-> IF path[k] = old THEN new ELSE path[k]]

Paths == OutputFiles \cup {Replace(p, ".csv", ".json") : p \in OutputFiles}

NoFile == [kind |-> "none"]

\* ------------------------------------------------------------ environment
Loopback == "127.0.0.1"
LanIp == "192.168.1.10"
LanIp2 == "10.0.0.5"

\* What interface enumeration can find: (interface, address) in the order
\* of the command's output.
InterfaceLists ==
    { <<>>,
      << [iface |-> "lo", ip |-> Loopback] >>,
      << [iface |-> "lo", ip |-> Loopback], [iface |-> "eth0", ip |-> LanIp],
         [iface |-> "wlan0", ip |-> LanIp2] >> }

\* One started external process: the command, the timeout= it was given
\* (NoTimeout when none) and how it ended.
Call(cmd, timeout, outcome) ==
    [cmd |-> cmd, timeout |-> timeout, outcome |-> outcome]

\* The processes a call started, each with the name of the call: the key
\* run_tests stores the call's record under, or "__init__".
By(name, started) ==
    [k \in 1..Len(started) |->
        [by |-> name, cmd |-> started[k].cmd, timeout |-> started[k].timeout,
         outcome |-> started[k].outcome]]

\* A deviation is available while the budget lasts.
MayDeviate == devs < MaxDeviations

\* ------------------------------------------------------- subprocess calls
\* How an external process can behave.  "exit0" carries the output.
Exit0(out) == [kind |-> "exit0", out |-> out]
Nonzero == [kind |-> "nonzero"]
NotFound == [kind |-> "notfound"]
Permission == [kind |-> "permission"]
Hang == [kind |-> "hang"]
Interrupt == [kind |-> "interrupt"]

\* The exception subprocess.check_call / check_output(timeout=timeout)
\* raises for a process behaving as o: "none" when it returns, "blocked"
\* when the call never returns (the process never exits and no timeout was
\* given).
SubprocessRaises(o, timeout) ==
    CASE o.kind = "exit0" -> "none"
      [] o.kind = "nonzero" -> "CalledProcessError"
      [] o.kind = "notfound" -> "FileNotFoundError"
      [] o.kind = "permission" -> "PermissionError"
      [] o.kind = "hang" ->
            IF timeout = NoTimeout THEN "blocked" ELSE "TimeoutExpired"
      [] o.kind = "interrupt" -> "KeyboardInterrupt"

\* except subprocess.SubprocessError
IsSubprocessError(e) == e \in {"CalledProcessError", "TimeoutExpired"}

\* except Exception: everything but KeyboardInterrupt (a BaseException).
IsException(e) == e \notin {"none", "blocked", "KeyboardInterrupt"}

\* str(e) of the exceptions the adapters turn into an error message.
StrOf(e) ==
    CASE e = "TimeoutExpired" -> "Command timed out after N seconds"
      [] e = "CalledProcessError" -> "Command returned non-zero exit status"
      [] e = "TypeError" -> "unsupported operand type(s)"
      [] e = "KeyError" -> "KeyError"
      [] e = "NameError" -> "name 'speed_download' is not defined"
      [] e = "OSError" -> "OSError"
      [] OTHER -> e

\* ------------------------------------------------------------ constructor
\* The hosts the runs are explored on: the branches the code takes on
\* "Linux" (ip -o addr show, dd for the temporary file).
Platforms == {"Linux"}

Init ==
    /\ platform \in Platforms
    /\ iterations \in 0..MaxIterations
    /\ output_file \in OutputFiles \cup {<<>>}
    /\ iperf_server \in BOOLEAN
    /\ should_run_speedtest \in BOOLEAN
    /\ run_local_test \in BOOLEAN
    /\ system_info = [interfaces |-> <<>>]
    /\ has_iperf3 = FALSE
    /\ has_speedtest = FALSE
    /\ results = <<>>
    /\ pc = "get_system_info"
    /\ i = 0
    /\ iteration_results = [iteration |-> 0]
    /\ calls = <<>>
    /\ devs = 0
    /\ exc = "none"
    /\ console = <<>>
    /\ files = [p \in Paths |-> NoFile]
    /\ summary = <<>>
    /\ temp_file = FALSE
    /\ server = "none"
    /\ lt = [exc |-> "none", ret |-> <<>>]

\* The program stops at pc with exception e leaving it (or blocked in a call
\* that never returns).
Stop(e) ==
    /\ pc' = IF e = "blocked" THEN "blocked" ELSE "aborted"
    /\ exc' = e

\* The command that enumerates the interfaces on this platform.
EnumerateCmd == IF platform = "Linux" THEN "ip -o addr show" ELSE "ifconfig"

\* The first command _get_interface_details_linux / _macos runs.
DetailCmd == IF platform = "Linux" THEN "ethtool" ELSE "airport"

\* The nominal environment: a loopback and two LAN interfaces.
NominalInterfaces ==
    << [iface |-> "lo", ip |-> Loopback], [iface |-> "eth0", ip |-> LanIp],
       [iface |-> "wlan0", ip |-> LanIp2] >>

\* _get_network_interfaces: the interface mapping for the enumeration
\* command behaving as o; an exception of the command is caught and leaves
\* the mapping empty, an unsupported platform runs no command.
GetNetworkInterfaces(o) ==
    IF platform \in {"Linux", "Darwin"} /\ o.kind = "exit0" THEN o.out ELSE <<>>

\* The environment takes a step: nominal, or a deviation within the budget.
Deviate(nominal) ==
    /\ nominal \/ MayDeviate
    /\ devs' = IF nominal THEN devs ELSE devs + 1

\* _get_system_info, called by __init__: enumerates the interfaces with the
\* platform's command (o), then queries each interface's details (d).  None
\* of the commands is given a timeout.
GetSystemInfo ==
    /\ pc = "get_system_info"
    /\ \E o \in {Exit0(ifs) : ifs \in InterfaceLists} \cup {Nonzero, Hang},
          d \in {Exit0("details"), Hang} :
        LET e == SubprocessRaises(o, NoTimeout)
            found == GetNetworkInterfaces(o)
            de == IF found = <<>> THEN "none" ELSE SubprocessRaises(d, NoTimeout)
        IN  /\ found = <<>> => d.kind = "exit0"
            /\ Deviate(o = Exit0(NominalInterfaces) /\ d.kind = "exit0")
            /\ calls' = By("__init__",
                             <<Call(EnumerateCmd, NoTimeout, o.kind)>> \o
                             (IF found = <<>> THEN <<>>
                              ELSE <<Call(DetailCmd, NoTimeout, d.kind)>>))
            /\ IF "blocked" \in {e, de}
               THEN Stop("blocked") /\ UNCHANGED system_info
               ELSE /\ system_info' = [interfaces |-> found]
                    /\ pc' = "check_iperf3"
                    /\ UNCHANGED exc
    /\ UNCHANGED <<config, has_iperf3, has_speedtest, results, i,
                   iteration_results, console, files, summary, local>>

\* _check_tool(tool) for a probe behaving as o: check_call without timeout;
\* SubprocessError and FileNotFoundError are caught and give False.
\* The result is [ret, exc]: exc is "none" when the function returns ret.
CheckTool(o) ==
    LET e == SubprocessRaises(o, NoTimeout)
    IN  IF e = "none" THEN [ret |-> TRUE, exc |-> "none"]
        ELSE IF IsSubprocessError(e) \/ e = "FileNotFoundError"
             THEN [ret |-> FALSE, exc |-> "none"]
             ELSE [ret |-> FALSE, exc |-> e]

ProbeOutcomes == {Exit0("version"), Nonzero, NotFound, Permission, Hang}

\* self.has_iperf3 = self._check_tool("iperf3")
CheckIperf3 ==
    /\ pc = "check_iperf3"
    /\ \E o \in ProbeOutcomes :
        LET r == CheckTool(o)
        IN  /\ Deviate(o.kind = "exit0")
            /\ calls' = By("__init__",
                             <<Call("iperf3 --version", NoTimeout, o.kind)>>)
            /\ IF r.exc # "none"
               THEN Stop(r.exc) /\ UNCHANGED has_iperf3
               ELSE /\ has_iperf3' = r.ret
                    /\ pc' = "check_speedtest"
                    /\ UNCHANGED exc
    /\ UNCHANGED <<config, system_info, has_speedtest, results, i,
                   iteration_results, console, files, summary, local>>

\* self.has_speedtest = self._check_tool("speedtest-cli") or
\*                      self._check_tool("speedtest")
\* Nominally speedtest-cli is installed; with speedtest-cli missing, the
\* second probe finds speedtest or not without using the budget again.
CheckSpeedtest ==
    /\ pc = "check_speedtest"
    /\ \E o1 \in ProbeOutcomes, o2 \in ProbeOutcomes :
        LET r1 == CheckTool(o1)
            second == r1.exc = "none" /\ ~r1.ret
            r2 == CheckTool(o2)
            c1 == Call("speedtest-cli --version", NoTimeout, o1.kind)
            c2 == Call("speedtest --version", NoTimeout, o2.kind)
        IN  /\ ~second => o2 = Exit0("version")
            /\ Deviate(o1.kind = "exit0")
            /\ calls' = By("__init__", IF second THEN <<c1, c2>> ELSE <<c1>>)
            /\ IF r1.exc # "none"
               THEN Stop(r1.exc) /\ UNCHANGED has_speedtest
               ELSE IF second /\ r2.exc # "none"
               THEN Stop(r2.exc) /\ UNCHANGED has_speedtest
               ELSE /\ has_speedtest' = (r1.ret \/ r2.ret)
                    /\ pc' = "warn"
                    /\ UNCHANGED exc
    /\ UNCHANGED <<config, system_info, has_iperf3, results, i,
                   iteration_results, console, files, summary, local>>

\* The attribute self.run_speedtest read by __init__ is the bound method
\* run_speedtest (the flag is stored as should_run_speedtest): it is truthy.
RunSpeedtestAttr == TRUE

\* The two warnings at the end of __init__.
PrintWarnings ==
    /\ pc = "warn"
    /\ console' = console
            \o (IF ~has_iperf3 THEN <<"warn_iperf3">> ELSE <<>>)
            \o (IF ~has_speedtest /\ RunSpeedtestAttr
                THEN <<"warn_speedtest">> ELSE <<>>)
    /\ pc' = "loop"
    /\ calls' = <<>>
    /\ UNCHANGED <<config, tester, i, iteration_results, devs, exc, files,
                   summary, local>>

\* ---------------------------------------------------------------- adapters
\* An adapter call gives [rec, exc, calls]: the record it returns (when exc
\* is "none"), the exception that leaves it, the processes it started.
Returned(rec, started) == [rec |-> rec, exc |-> "none", calls |-> started]
Raised(e, started) == [rec |-> [error |-> e], exc |-> e, calls |-> started]

\* {} (a dict without keys)
EmptyDict == <<>>

\* ---- latency
\* The parsed ping output: the "time=" samples in arrival order, and the
\* first word of the "packet loss" part when the line is there.
PingOut(times, loss) == [times |-> times, packet_loss |-> loss]
PingOutNoLossLine(times) == [times |-> times]

NominalPing == Exit0(PingOut(<<20, 24>>, "0%"))

PingOutcomes ==
    { NominalPing,
      Exit0(PingOut(<<30, 20, 40>>, "25%")),
      Exit0(PingOut(<<35>>, "50%")),
      Exit0(PingOutNoLossLine(<<>>)),
      Nonzero, Hang, Interrupt }

\* Jitter as a bug would have it: the mean absolute deviation from the
\* average of the samples.
JitterFromMean(times) ==
    IF Len(times) > 1
    THEN LET devs_ == [k \in 1..Len(times) |-> Abs(times[k] - Mean(times))]
         IN  SumSeq(devs_) \div Len(devs_)
    ELSE 0

\* jitter: mean absolute difference of consecutive samples, 0 for one sample.
Jitter(times) ==
    IF Len(times) > 1
    THEN LET diffs == [k \in 1..(Len(times) - 1) |-> Abs(times[k + 1] - times[k])]
         IN  SumSeq(diffs) \div Len(diffs)
    ELSE 0

\* The record of the except branch and of the no-sample branch.
NoLatency(loss) ==
    [min |-> None, max |-> None, avg |-> None, mdev |-> None, jitter |-> None,
     packet_loss |-> loss, samples |-> 0]

\* run_latency_jitter_test for a ping behaving as o.
run_latency_jitter_test(o) ==
    LET started == <<Call("ping", PingCount + PingSlack, o.kind)>>
        e == SubprocessRaises(o, PingCount + PingSlack)
    IN  IF e = "none"
        THEN LET times == o.out.times
                 packet_loss == Get(o.out, "packet_loss", "100%")
             IN  IF times # <<>>
                 THEN Returned([min |-> MinSeq(times), max |-> MaxSeq(times),
                                avg |-> Mean(times),
                                mdev |-> IF Len(times) > 1 THEN Stdev(times) ELSE 0,
                                jitter |-> Jitter(times),
                                packet_loss |-> packet_loss,
                                samples |-> Len(times)], started)
                 ELSE Returned(NoLatency(packet_loss), started)
        ELSE IF IsException(e)
        THEN Returned(SetKey(NoLatency("100%"), "error", StrOf(e)), started)
        ELSE Raised(e, started)

\* ---- throughput
Million == 1000000

\* iperf3 -J output that json.loads accepts (doc), or free text whose
\* "sender ... Mbits/sec" line carries a number (mbits) or is not there.
Json(doc) == [json |-> TRUE, doc |-> doc]
Text(fields) == [json |-> FALSE, text |-> fields]

TcpDoc(sent, received, retransmits) ==
    [end |-> [sum_sent |-> [bits_per_second |-> sent],
              sum_received |-> [bits_per_second |-> received],
              sum |-> [retransmits |-> retransmits]]]

UdpDoc(bps, jitter, lost) ==
    [end |-> [sum |-> [bits_per_second |-> bps, jitter_ms |-> jitter,
                       lost_packets |-> 1, packets |-> 100,
                       lost_percent |-> lost]]]

\* A summary without the fields the adapter reads.
TcpDocNoSums == [end |-> [sum |-> [retransmits |-> 0]]]
UdpDocNoJitter == [end |-> [sum |-> [bits_per_second |-> 30 * Million]]]

IperfNominal(protocol) ==
    IF protocol = "tcp" THEN Exit0(Json(TcpDoc(50 * Million, 40 * Million, 2)))
    ELSE Exit0(Json(UdpDoc(30 * Million, 3, 1)))

IperfOutcomes(protocol) ==
    { IperfNominal(protocol),
      Exit0(Text([mbits |-> 45])),
      Exit0(Text(EmptyDict)),
      Nonzero, Hang, Interrupt }
    \cup (IF protocol = "tcp"
          THEN { Exit0(Json(TcpDoc(None, None, 0))),
                 Exit0(Json(TcpDocNoSums)) }
          ELSE { Exit0(Json(UdpDoc(None, 3, 1))),
                 Exit0(Json(UdpDocNoJitter)) })

\* x / 1000000: TypeError on None.
DivMillion(x) == x \div Million

\* The fallback scan of the text output: the number before "Mbits/sec" on a
\* "sender" line, None when there is none.
ScanMbits(out) == Get(out.text, "mbits", None)

\* The dict of the json.loads branch of run_iperf3_test.
IperfJsonRecord(result, protocol, reverse) ==
    LET end == Get(result, "end", EmptyDict)
    IN  IF protocol = "tcp"
        THEN LET sent == Get(end, "sum_sent", EmptyDict)
                 received == Get(end, "sum_received", EmptyDict)
                 data == IF reverse THEN received ELSE sent
             IN  [protocol |-> "TCP",
                  bits_per_second |-> Get(data, "bits_per_second", None),
                  retransmits |-> Get(Get(end, "sum", EmptyDict), "retransmits", 0),
                  sender |-> ~reverse,
                  mbps |-> DivMillion(Get(data, "bits_per_second", 0))]
        ELSE LET sum == Get(end, "sum", EmptyDict)
             IN  [protocol |-> "UDP",
                  bits_per_second |-> Get(sum, "bits_per_second", None),
                  jitter_ms |-> Get(sum, "jitter_ms", None),
                  lost_packets |-> Get(sum, "lost_packets", None),
                  packets |-> Get(sum, "packets", None),
                  lost_percent |-> Get(sum, "lost_percent", 0),
                  sender |-> ~reverse,
                  mbps |-> DivMillion(Get(sum, "bits_per_second", 0))]

\* The dict of the except json.JSONDecodeError branch of run_iperf3_test.
IperfFallbackRecord(out, protocol) ==
    [protocol |-> IF protocol = "tcp" THEN "TCP" ELSE "UDP",
     mbps |-> ScanMbits(out),
     output |-> out,
     parse_error |-> "Could not parse JSON output"]

\* The division by 1000000 in the json branch raises TypeError.
IperfJsonRaises(result, protocol, reverse) ==
    LET end == Get(result, "end", EmptyDict)
        data == IF protocol = "tcp"
                THEN Get(end, IF reverse THEN "sum_received" ELSE "sum_sent", EmptyDict)
                ELSE Get(end, "sum", EmptyDict)
    IN  Get(data, "bits_per_second", 0) = None

\* run_iperf3_test(server, protocol=protocol, reverse=reverse) for an iperf3
\* behaving as o.
run_iperf3_test(o, protocol, reverse) ==
    IF ~has_iperf3 THEN Returned([error |-> "iperf3 not installed"], <<>>)
    ELSE
    LET started == <<Call("iperf3", Duration + IperfSlack, o.kind)>>
        e == SubprocessRaises(o, Duration + IperfSlack)
    IN  IF e = "none"
        THEN IF o.out.json
             THEN IF IperfJsonRaises(o.out.doc, protocol, reverse)
                  THEN Returned([error |-> StrOf("TypeError")], started)
                  ELSE Returned(IperfJsonRecord(o.out.doc, protocol, reverse), started)
             ELSE Returned(IperfFallbackRecord(o.out, protocol), started)
        ELSE IF e = "CalledProcessError"
        THEN Returned([error |-> "iperf3 failed with return code",
                       output |-> Text(EmptyDict)], started)
        ELSE IF e = "TimeoutExpired"
        THEN Returned([error |-> "Timeout expired"], started)
        ELSE IF IsException(e)
        THEN Returned([error |-> StrOf(e)], started)
        ELSE Raised(e, started)

\* ---- internet speed
\* speedtest-cli --json (older schema): bandwidths and ping are top-level
\* numbers.  speedtest --format=json (newer schema): nested objects; dicts
\* names the keys whose value is a JSON object (isinstance(v, dict)).
OldDoc(download, upload, ping) ==
    [json |-> TRUE, dicts |-> {"server"},
     doc |-> [download |-> download, upload |-> upload, ping |-> ping,
              server |-> [sponsor |-> "isp", country |-> "cc"]]]

NewDoc(download, upload, latency) ==
    [json |-> TRUE, dicts |-> {"download", "upload", "ping", "server"},
     doc |-> [download |-> [bandwidth |-> download],
              upload |-> [bandwidth |-> upload],
              ping |-> [latency |-> latency, jitter |-> 2],
              server |-> [name |-> "isp", country |-> "cc"]]]

\* The newer schema without the upload object.
NewDocNoUpload ==
    [json |-> TRUE, dicts |-> {"download", "ping"},
     doc |-> [download |-> [bandwidth |-> 12 * Million],
              ping |-> [latency |-> 15]]]

NominalSpeedtestCli == Exit0(OldDoc(100 * Million, 20 * Million, 15))
NominalSpeedtest == Exit0(NewDoc(12 * Million, 2 * Million, 15))

SpeedtestCliOutcomes ==
    { NominalSpeedtestCli,
      NominalSpeedtest,
      Exit0(NewDocNoUpload),
      Exit0(Text([download |-> 90, upload |-> 18, ping |-> 14])),
      Exit0(Text([download |-> 90])),
      Nonzero, Hang, Interrupt }

SpeedtestOutcomes ==
    { NominalSpeedtest, Exit0(Text([download |-> 90])), Nonzero, Hang, Interrupt }

\* SpeedtestJsonRecord as a bug would have it: the older schema's figures
\* multiplied by 8 like the newer schema's.
SpeedtestJsonRecordTimesEight(out) ==
    LET result == out.doc
    IN  IF "download" \in DOMAIN result /\ "download" \in out.dicts
        THEN [download_mbps |-> (result.download.bandwidth * 8) \div Million,
              upload_mbps |-> (result.upload.bandwidth * 8) \div Million,
              ping_ms |-> result.ping.latency,
              jitter_ms |-> Get(result.ping, "jitter", None),
              server |-> Get(Get(result, "server", EmptyDict), "name", "Unknown"),
              server_country |->
                  Get(Get(result, "server", EmptyDict), "country", "Unknown")]
        ELSE [download_mbps |-> (result.download * 8) \div Million,
              upload_mbps |-> (result.upload * 8) \div Million,
              ping_ms |-> result.ping,
              server |-> Get(Get(result, "server", EmptyDict), "sponsor", "Unknown"),
              server_country |->
                  Get(Get(result, "server", EmptyDict), "country", "Unknown")]

\* The dict of the json.loads branch of run_speedtest; a missing key raises
\* KeyError (SpeedtestJsonRaises).
SpeedtestJsonRecord(out) ==
    LET result == out.doc
    IN  IF "download" \in DOMAIN result /\ "download" \in out.dicts
        THEN [download_mbps |-> (result.download.bandwidth * 8) \div Million,
              upload_mbps |-> (result.upload.bandwidth * 8) \div Million,
              ping_ms |-> result.ping.latency,
              jitter_ms |-> Get(result.ping, "jitter", None),
              server |-> Get(Get(result, "server", EmptyDict), "name", "Unknown"),
              server_country |->
                  Get(Get(result, "server", EmptyDict), "country", "Unknown")]
        ELSE [download_mbps |-> result.download \div Million,
              upload_mbps |-> result.upload \div Million,
              ping_ms |-> result.ping,
              server |-> Get(Get(result, "server", EmptyDict), "sponsor", "Unknown"),
              server_country |->
                  Get(Get(result, "server", EmptyDict), "country", "Unknown")]

SpeedtestJsonRaises(out) ==
    LET result == out.doc
    IN  IF "download" \in DOMAIN result /\ "download" \in out.dicts
        THEN \/ "bandwidth" \notin DOMAIN result.download
             \/ "upload" \notin DOMAIN result
             \/ "bandwidth" \notin DOMAIN result.upload
             \/ "ping" \notin DOMAIN result
             \/ "latency" \notin DOMAIN result.ping
        ELSE {"download", "upload", "ping"} \ DOMAIN result # {}

\* The dict of the except json.JSONDecodeError branch of run_speedtest.
SpeedtestFallbackRecord(out) ==
    [download_mbps |-> Get(out.text, "download", None),
     upload_mbps |-> Get(out.text, "upload", None),
     ping_ms |-> Get(out.text, "ping", None),
     parse_error |-> "Could not parse JSON output"]

\* run_speedtest for a speedtest-cli behaving as o1 and, when that call
\* raises a SubprocessError or FileNotFoundError, a speedtest behaving as o2.
run_speedtest(o1, o2) ==
    IF ~has_speedtest THEN Returned([error |-> "speedtest-cli not installed"], <<>>)
    ELSE
    LET e1 == SubprocessRaises(o1, SpeedtestTimeout)
        fallback == IsSubprocessError(e1) \/ e1 = "FileNotFoundError"
        e == IF fallback THEN SubprocessRaises(o2, SpeedtestTimeout) ELSE e1
        o == IF fallback THEN o2 ELSE o1
        started == <<Call("speedtest-cli --json", SpeedtestTimeout, o1.kind)>> \o
                   (IF fallback
                    THEN <<Call("speedtest --format=json", SpeedtestTimeout, o2.kind)>>
                    ELSE <<>>)
    IN  IF e = "none"
        THEN IF o.out.json
             THEN IF SpeedtestJsonRaises(o.out)
                  THEN Returned([error |-> StrOf("KeyError")], started)
                  ELSE Returned(SpeedtestJsonRecord(o.out), started)
             ELSE Returned(SpeedtestFallbackRecord(o.out), started)
        ELSE IF e = "CalledProcessError"
        THEN Returned([error |-> "Speed test failed with return code"], started)
        ELSE IF e = "TimeoutExpired"
        THEN Returned([error |-> "Timeout expired"], started)
        ELSE IF IsException(e)
        THEN Returned([error |-> StrOf(e)], started)
        ELSE Raised(e, started)

\* The second invocation of run_speedtest is made for these first outcomes.
SpeedtestFallsBack(o1) ==
    LET e1 == SubprocessRaises(o1, SpeedtestTimeout)
    IN  has_speedtest /\ (IsSubprocessError(e1) \/ e1 = "FileNotFoundError")

\* ------------------------------------------------------------- run_tests
\* Where run_tests goes after each adapter block.
AfterSpeedtest == IF run_local_test THEN "local_transfer" ELSE "append"
AfterIperf == IF should_run_speedtest THEN "speedtest" ELSE AfterSpeedtest
\* AfterLatency as a bug would have it: the internet speed test is run before
\* the throughput tests, which are then passed over.
AfterLatencySpeedtestFirst ==
    IF should_run_speedtest THEN "speedtest" ELSE AfterIperf

AfterLatency == IF iperf_server THEN "iperf_tcp_upload" ELSE AfterIperf

\* The prints of run_tests that follow each adapter call: whether a
\* format(..., ".2f") of them is handed None.
LatencyPrintRaises(rec) ==
    /\ rec.avg # None
    /\ \E f \in {"min", "avg", "max", "mdev", "jitter"} : FormatRaises(rec[f])

TcpPrintRaises(rec) ==
    /\ "error" \notin DOMAIN rec
    /\ FormatRaises(rec.mbps)

UdpPrintRaises(rec) ==
    /\ "error" \notin DOMAIN rec
    /\ \/ FormatRaises(rec.mbps)
       \/ "jitter_ms" \in DOMAIN rec /\ FormatRaises(rec.jitter_ms)
       \/ "lost_percent" \in DOMAIN rec /\ FormatRaises(rec.lost_percent)

SpeedtestPrintRaises(rec) ==
    /\ "error" \notin DOMAIN rec
    /\ \/ FormatRaises(rec.download_mbps)
       \/ FormatRaises(rec.upload_mbps)
       \/ FormatRaises(rec.ping_ms)

LocalPrintRaises(rec) ==
    /\ "error" \notin DOMAIN rec
    /\ \/ FormatRaises(rec.elapsed_seconds)
       \/ FormatRaises(rec.transfer_speed_mbps)

\* iteration_results[key] = <the adapter's record>, then the prints; r is
\* the adapter call's result.
RecordAndPrint(key, r, printRaises, nextpc) ==
    /\ calls' = By(key, r.calls)
    /\ IF r.exc # "none"
       THEN Stop(r.exc) /\ UNCHANGED iteration_results
       ELSE /\ iteration_results' = SetKey(iteration_results, key, r.rec)
            /\ IF printRaises
               THEN Stop("TypeError")
               ELSE pc' = nextpc /\ UNCHANGED exc

\* Reporting as a bug would have it: the summary first.
ReportingSummaryFirst == <<"summary", "save">>

\* The two calls that end run_tests, in the order of the code.
Reporting == <<"save", "summary">>

\* Where run_tests goes after the reporting step at pc.
AfterReporting ==
    IF Reporting[1] = pc THEN Reporting[2] ELSE "done"

\* for i in range(self.iterations): the loop test and the new dict; after
\* the loop, the reporting.
BeginIteration ==
    /\ pc = "loop"
    /\ IF i < iterations
       THEN /\ iteration_results' = [timestamp |-> "now", iteration |-> i + 1]
            /\ pc' = "latency"
       ELSE /\ pc' = Reporting[1]
            /\ UNCHANGED iteration_results
    /\ calls' = <<>>
    /\ UNCHANGED <<config, tester, i, devs, exc, console, files, summary, local>>

LatencyTest ==
    /\ pc = "latency"
    /\ \E o \in PingOutcomes :
        LET r == run_latency_jitter_test(o)
        IN  /\ Deviate(o \in {NominalPing, Interrupt})
            /\ RecordAndPrint("latency_test", r, LatencyPrintRaises(r.rec),
                              AfterLatency)
    /\ UNCHANGED <<config, tester, i, console, files, summary, local>>

TcpUploadTest ==
    /\ pc = "iperf_tcp_upload"
    /\ \E o \in IperfOutcomes("tcp") :
        LET r == run_iperf3_test(o, "tcp", FALSE)
        IN  /\ has_iperf3 => Deviate(o \in {IperfNominal("tcp"), Interrupt})
            /\ ~has_iperf3 => o = IperfNominal("tcp") /\ UNCHANGED devs
            /\ RecordAndPrint("iperf_tcp_upload", r, TcpPrintRaises(r.rec),
                              "iperf_tcp_download")
    /\ UNCHANGED <<config, tester, i, console, files, summary, local>>

TcpDownloadTest ==
    /\ pc = "iperf_tcp_download"
    /\ \E o \in IperfOutcomes("tcp") :
        LET r == run_iperf3_test(o, "tcp", TRUE)
        IN  /\ has_iperf3 => Deviate(o \in {IperfNominal("tcp"), Interrupt})
            /\ ~has_iperf3 => o = IperfNominal("tcp") /\ UNCHANGED devs
            /\ RecordAndPrint("iperf_tcp_download", r, TcpPrintRaises(r.rec),
                              "iperf_udp_test")
    /\ UNCHANGED <<config, tester, i, console, files, summary, local>>

UdpTest ==
    /\ pc = "iperf_udp_test"
    /\ \E o \in IperfOutcomes("udp") :
        LET r == run_iperf3_test(o, "udp", FALSE)
        IN  /\ has_iperf3 => Deviate(o \in {IperfNominal("udp"), Interrupt})
            /\ ~has_iperf3 => o = IperfNominal("udp") /\ UNCHANGED devs
            /\ RecordAndPrint("iperf_udp_test", r, UdpPrintRaises(r.rec),
                              AfterIperf)
    /\ UNCHANGED <<config, tester, i, console, files, summary, local>>

SpeedTest ==
    /\ pc = "speedtest"
    /\ \E o1 \in SpeedtestCliOutcomes, o2 \in SpeedtestOutcomes :
        LET r == run_speedtest(o1, o2)
            n1 == o1 \in {NominalSpeedtestCli, Interrupt}
            n2 == o2 \in {NominalSpeedtest, Interrupt}
        IN  /\ ~SpeedtestFallsBack(o1) => o2 = NominalSpeedtest
            /\ ~has_speedtest => o1 = NominalSpeedtestCli
            /\ IF ~has_speedtest THEN UNCHANGED devs
               ELSE /\ devs + (IF n1 THEN 0 ELSE 1) + (IF n2 THEN 0 ELSE 1)
                          <= MaxDeviations
                    /\ devs' = devs + (IF n1 THEN 0 ELSE 1) + (IF n2 THEN 0 ELSE 1)
            /\ RecordAndPrint("speedtest", r, SpeedtestPrintRaises(r.rec),
                              AfterSpeedtest)
    /\ UNCHANGED <<config, tester, i, console, files, summary, local>>

\* ------------------------------------------------ run_local_transfer_test
\* ip.startswith("127.") or ip.startswith("::1")
IsLoopbackIp(ip) == ip \in {Loopback, "::1"}

\* get_local_network_ip as a bug would have it: the last usable address.
get_last_network_ip ==
    LET local_ips == SelectSeq(system_info.interfaces,
                               LAMBDA d : d.ip # "" /\ ~IsLoopbackIp(d.ip))
    IN  IF local_ips # <<>> THEN local_ips[Len(local_ips)].ip ELSE ""

\* get_local_network_ip: the first address, in the order of the interface
\* mapping, that is non-empty and not a loopback address; "" stands for the
\* None it returns when there is none (both are falsy).
get_local_network_ip ==
    LET local_ips == SelectSeq(system_info.interfaces,
                               LAMBDA d : d.ip # "" /\ ~IsLoopbackIp(d.ip))
    IN  IF local_ips # <<>> THEN local_ips[1].ip ELSE ""

\* Building the curl command line evaluates the f-string
\* f"curl ... -w '%{speed_download}' http://{local_ip}:8765/{temp_filename}",
\* whose replacement field {speed_download} names a variable that does not
\* exist: NameError, before any process is started.
CurlCommandRaises == TRUE

\* What curl reports and how long the download took.
CurlOut(speed, elapsed) == [speed |-> speed, elapsed |-> elapsed]
NominalCurl == Exit0(CurlOut(50 * Million, 2))
CurlOutcomes ==
    { NominalCurl, Exit0(CurlOut(None, 4)), Nonzero, Hang, Interrupt }

\* The dict run_local_transfer_test returns after a download; speed None
\* stands for an output float() rejects.
LocalTransferRecord(out) ==
    [file_size_mb |-> SizeMb,
     elapsed_seconds |-> out.elapsed,
     transfer_speed_mbps |-> (SizeMb * 8) \div out.elapsed,
     transfer_speed_mbps_curl |->
        IF out.speed = None THEN None ELSE (out.speed * 8) \div Million]

\* The pending state of the call: the exception in flight and the value a
\* return statement has computed.
Pending(e, ret) == [exc |-> e, ret |-> ret]

\* except Exception as e: return {"error": str(e)}; a KeyboardInterrupt, and
\* a pending return, pass through.
Except(p) ==
    IF IsException(p.exc) THEN Pending("none", [error |-> StrOf(p.exc)]) ELSE p

\* The first lines: the feature flag and the address; both early returns
\* go back to run_tests, which stores and prints the record.
LocalStart ==
    /\ pc = "local_transfer"
    /\ server' = "none"
    /\ IF ~run_local_test
       THEN /\ RecordAndPrint("local_transfer",
                    Returned([error |-> "Local test disabled"], <<>>), FALSE, "append")
            /\ UNCHANGED lt
       ELSE IF get_local_network_ip = ""
       THEN /\ RecordAndPrint("local_transfer",
                    Returned([error |-> "Could not find local network IP"], <<>>),
                    FALSE, "append")
            /\ UNCHANGED lt
       ELSE /\ lt' = Pending("none", EmptyDict)
            /\ pc' = "lt_create"
            /\ calls' = <<>>
            /\ UNCHANGED <<iteration_results, exc>>
    /\ UNCHANGED <<config, tester, i, devs, console, files, summary, temp_file>>

\* The temporary file: dd without timeout on Linux, a write by the program
\* itself elsewhere.  A failed or interrupted creation may leave a file
\* (left).  An exception goes to the except clause and the outer finally.
LtCreateFile ==
    /\ pc = "lt_create"
    /\ \E o \in {Exit0("dd"), Nonzero, Hang, Interrupt}, left \in BOOLEAN :
        LET e == IF platform = "Linux" THEN SubprocessRaises(o, NoTimeout)
                 ELSE IF o.kind = "exit0" THEN "none"
                 ELSE IF o.kind = "interrupt" THEN "KeyboardInterrupt"
                 ELSE "OSError"
        IN  /\ platform # "Linux" => o # Hang
            /\ o.kind \in {"exit0", "hang"} => left
            /\ Deviate(o.kind \in {"exit0", "interrupt"})
            /\ calls' = IF platform = "Linux"
                        THEN By("local_transfer", <<Call("dd", NoTimeout, o.kind)>>)
                        ELSE <<>>
            /\ temp_file' = left
            /\ IF e = "blocked"
               THEN Stop("blocked") /\ UNCHANGED lt
               ELSE /\ lt' = Except(Pending(e, EmptyDict))
                    /\ pc' = IF e = "none" THEN "lt_popen" ELSE "lt_remove"
                    /\ UNCHANGED exc
    /\ UNCHANGED <<config, tester, i, iteration_results, console, files,
                   summary, server>>

\* server_process = subprocess.Popen("python3 -m http.server 8765", ...):
\* the server runs beside the program until it is terminated.
ServerCmd == "python3 -m http.server 8765"

LtStartServer ==
    /\ pc = "lt_popen"
    /\ \E ok \in BOOLEAN :
        /\ Deviate(ok)
        /\ calls' = calls \o By("local_transfer",
                <<Call(ServerCmd, NoTimeout, IF ok THEN "started" ELSE "failed")>>)
        /\ IF ok
           THEN server' = "running" /\ pc' = "lt_sleep" /\ UNCHANGED lt
           ELSE /\ lt' = Except(Pending("OSError", EmptyDict))
                /\ pc' = "lt_remove"
                /\ UNCHANGED server
    /\ UNCHANGED <<config, tester, i, iteration_results, exc, console, files,
                   summary, temp_file>>

\* time.sleep(2) inside the inner try; an interrupt enters the inner
\* finally, whose first statement is server_process.terminate().
LtSleep ==
    /\ pc = "lt_sleep"
    /\ \/ pc' = "lt_curl" /\ UNCHANGED <<lt, server>>
       \/ /\ lt' = Pending("KeyboardInterrupt", EmptyDict)
          /\ server' = "terminating"
          /\ pc' = "lt_wait"
    /\ UNCHANGED <<config, tester, i, iteration_results, calls, devs, exc,
                   console, files, summary, temp_file>>

\* The download: the command line is built, curl runs with timeout=300, the
\* elapsed time and the speed give the record of the return statement.
\* However the inner try is left, the inner finally starts with
\* server_process.terminate().
LtDownload ==
    /\ pc = "lt_curl"
    /\ IF CurlCommandRaises
       THEN /\ lt' = Pending("NameError", EmptyDict)
            /\ UNCHANGED <<calls, devs>>
       ELSE \E o \in CurlOutcomes :
            LET e == SubprocessRaises(o, CurlTimeout)
            IN  /\ Deviate(o \in {NominalCurl, Interrupt})
                /\ calls' = calls \o By("local_transfer",
                                         <<Call("curl", CurlTimeout, o.kind)>>)
                /\ lt' = IF e = "none"
                         THEN Pending("none", LocalTransferRecord(o.out))
                         ELSE Pending(e, EmptyDict)
    /\ server' = "terminating"
    /\ pc' = "lt_wait"
    /\ UNCHANGED <<config, tester, i, iteration_results, exc, console, files,
                   summary, temp_file>>

\* server_process.wait(timeout=5): the server exits in time; or it does not,
\* TimeoutExpired is caught and the server is killed; or an interrupt
\* arrives during the wait: KeyboardInterrupt is not TimeoutExpired, it
\* replaces whatever was pending and leaves the finally block without the
\* kill.  Then the except clause of the outer try.
LtWait ==
    /\ pc = "lt_wait"
    /\ \E o \in {"exited", "timeout", "interrupt"} :
        /\ Deviate(o # "timeout")
        /\ server' = CASE o = "exited" -> "exited"
                       [] o = "timeout" -> "killed"
                       [] o = "interrupt" -> "terminating"
        /\ lt' = IF o = "interrupt" THEN Pending("KeyboardInterrupt", EmptyDict)
                 ELSE Except(lt)
    /\ pc' = "lt_remove"
    /\ UNCHANGED <<config, tester, i, iteration_results, calls, exc, console,
                   files, summary, temp_file>>

\* The outer finally: os.remove(temp_filename) when the file exists.  Then
\* the call returns to run_tests, or the interrupt leaves it:
\* iteration_results["local_transfer"] = local_test and the prints.
LtRemove ==
    /\ pc = "lt_remove"
    /\ temp_file' = FALSE
    /\ RecordAndPrint("local_transfer",
                      [rec |-> lt.ret, exc |-> lt.exc, calls |-> calls],
                      lt.exc = "none" /\ LocalPrintRaises(lt.ret), "append")
    /\ UNCHANGED <<config, tester, i, devs, console, files, summary, server, lt>>

\* self.results.append(iteration_results), then the test of the pause.
\* AppendResult as a bug would have it: a pause after every pass, the last
\* one included.
AppendResultAlwaysPauses ==
    /\ pc = "append"
    /\ results' = Append(results, iteration_results)
    /\ pc' = "sleep"
    /\ calls' = <<>>
    /\ UNCHANGED <<config, system_info, has_iperf3, has_speedtest, i,
                   iteration_results, devs, exc, console, files, summary, local>>

\* AppendResult as a bug would have it: the results hold the last pass only.
AppendResultKeepsLast ==
    /\ pc = "append"
    /\ results' = <<iteration_results>>
    /\ IF i < iterations - 1
       THEN pc' = "sleep" /\ UNCHANGED i
       ELSE pc' = "loop" /\ i' = i + 1
    /\ calls' = <<>>
    /\ UNCHANGED <<config, system_info, has_iperf3, has_speedtest,
                   iteration_results, devs, exc, console, files, summary, local>>

\* AppendResult as a bug would have it: the results are saved after every
\* pass instead of pausing.
AppendResultSavesEachPass ==
    /\ pc = "append"
    /\ results' = Append(results, iteration_results)
    /\ IF i < iterations - 1
       THEN pc' = "save" /\ UNCHANGED i
       ELSE pc' = "loop" /\ i' = i + 1
    /\ calls' = <<>>
    /\ UNCHANGED <<config, system_info, has_iperf3, has_speedtest,
                   iteration_results, devs, exc, console, files, summary, local>>

AppendResult ==
    /\ pc = "append"
    /\ results' = Append(results, iteration_results)
    /\ IF i < iterations - 1
       THEN pc' = "sleep" /\ UNCHANGED i
       ELSE pc' = "loop" /\ i' = i + 1
    /\ calls' = <<>>
    /\ UNCHANGED <<config, system_info, has_iperf3, has_speedtest,
                   iteration_results, devs, exc, console, files, summary, local>>

\* time.sleep(5) between iterations; an interrupt ends the program there.
Sleep ==
    /\ pc = "sleep"
    /\ \/ pc' = "loop" /\ i' = i + 1 /\ UNCHANGED exc
       \/ Stop("KeyboardInterrupt") /\ UNCHANGED i
    /\ UNCHANGED <<config, tester, iteration_results, calls, devs, console,
                   files, summary, local>>

\* ---------------------------------------------------------- _save_results
\* Fieldnames as a bug would have it: the columns of a feature are written
\* only when its tool was found.
FieldnamesByAvailability ==
    <<"timestamp", "iteration">>
    \o <<"latency_min_ms", "latency_avg_ms", "latency_max_ms", "jitter_ms",
         "packet_loss">>
    \o (IF iperf_server /\ has_iperf3
        THEN <<"tcp_upload_mbps", "tcp_download_mbps", "tcp_upload_retransmits",
               "tcp_download_retransmits", "udp_mbps", "udp_jitter_ms",
               "udp_loss_percent">>
        ELSE <<>>)
    \o (IF should_run_speedtest /\ has_speedtest
        THEN <<"internet_download_mbps", "internet_upload_mbps",
               "internet_ping_ms", "internet_jitter_ms">>
        ELSE <<>>)
    \o (IF run_local_test
        THEN <<"local_transfer_mbps", "local_transfer_time_s">>
        ELSE <<>>)

\* The header row of the tabular file.
Fieldnames ==
    <<"timestamp", "iteration">>
    \o <<"latency_min_ms", "latency_avg_ms", "latency_max_ms", "jitter_ms",
         "packet_loss">>
    \o (IF iperf_server
        THEN <<"tcp_upload_mbps", "tcp_download_mbps", "tcp_upload_retransmits",
               "tcp_download_retransmits", "udp_mbps", "udp_jitter_ms",
               "udp_loss_percent">>
        ELSE <<>>)
    \o (IF should_run_speedtest
        THEN <<"internet_download_mbps", "internet_upload_mbps",
               "internet_ping_ms", "internet_jitter_ms">>
        ELSE <<>>)
    \o (IF run_local_test
        THEN <<"local_transfer_mbps", "local_transfer_time_s">>
        ELSE <<>>)

\* result.get(key, {}).get(field)
Field(result, key, field) == Get(Get(result, key, EmptyDict), field, None)

\* The value the row loop stores under each column.
RowValue(result, column) ==
    CASE column = "timestamp" -> result.timestamp
      [] column = "iteration" -> result.iteration
      [] column = "latency_min_ms" -> Field(result, "latency_test", "min")
      [] column = "latency_avg_ms" -> Field(result, "latency_test", "avg")
      [] column = "latency_max_ms" -> Field(result, "latency_test", "max")
      [] column = "jitter_ms" -> Field(result, "latency_test", "jitter")
      [] column = "packet_loss" -> Field(result, "latency_test", "packet_loss")
      [] column = "tcp_upload_mbps" -> Field(result, "iperf_tcp_upload", "mbps")
      [] column = "tcp_upload_retransmits" ->
            Field(result, "iperf_tcp_upload", "retransmits")
      [] column = "tcp_download_mbps" -> Field(result, "iperf_tcp_download", "mbps")
      [] column = "tcp_download_retransmits" ->
            Field(result, "iperf_tcp_download", "retransmits")
      [] column = "udp_mbps" -> Field(result, "iperf_udp_test", "mbps")
      [] column = "udp_jitter_ms" -> Field(result, "iperf_udp_test", "jitter_ms")
      [] column = "udp_loss_percent" ->
            Field(result, "iperf_udp_test", "lost_percent")
      [] column = "internet_download_mbps" ->
            Field(result, "speedtest", "download_mbps")
      [] column = "internet_upload_mbps" -> Field(result, "speedtest", "upload_mbps")
      [] column = "internet_ping_ms" -> Field(result, "speedtest", "ping_ms")
      [] column = "internet_jitter_ms" -> Field(result, "speedtest", "jitter_ms")
      [] column = "local_transfer_mbps" ->
            Field(result, "local_transfer", "transfer_speed_mbps")
      [] column = "local_transfer_time_s" ->
            Field(result, "local_transfer", "elapsed_seconds")

\* The keys the row loop sets: the same three tests as the header.
RowKeys ==
    {"timestamp", "iteration", "latency_min_ms", "latency_avg_ms",
     "latency_max_ms", "jitter_ms", "packet_loss"}
    \cup (IF iperf_server
          THEN {"tcp_upload_mbps", "tcp_upload_retransmits", "tcp_download_mbps",
                "tcp_download_retransmits", "udp_mbps", "udp_jitter_ms",
                "udp_loss_percent"}
          ELSE {})
    \cup (IF should_run_speedtest
          THEN {"internet_download_mbps", "internet_upload_mbps",
                "internet_ping_ms", "internet_jitter_ms"}
          ELSE {})
    \cup (IF run_local_test
          THEN {"local_transfer_mbps", "local_transfer_time_s"}
          ELSE {})

Row(result) == [column \in RowKeys |-> RowValue(result, column)]

\* What json.dump writes.
JsonContent ==
    [kind |-> "json", system_info |-> system_info, results |-> results]

\* writer.writerow(row) raises ValueError: the row has a key that is no
\* fieldname.
RowRaises == results # <<>> /\ ~(RowKeys \subseteq SeqRange(Fieldnames))

\* What the csv.DictWriter writes: the header and one row per result (the
\* header alone when the first row raises).
CsvContent ==
    [kind |-> "csv", header |-> Fieldnames,
     rows |-> IF RowRaises THEN <<>>
              ELSE [k \in 1..Len(results) |-> Row(results[k])]]

\* json_file = self.output_file.replace('.csv', '.json')
JsonFile == Replace(output_file, ".csv", ".json")

\* _save_results: nothing without an output file; else the directories, the
\* JSON file, the CSV file, in this order.  Any exception (o names the call
\* that fails) is caught and reported.  DictWriter raises ValueError for a
\* row key that is no fieldname.
SaveOutcomes == {"ok", "makedirs_fails", "json_open_fails", "csv_open_fails"}

_save_results ==
    /\ pc = "save"
    /\ IF output_file = <<>>
       THEN UNCHANGED <<files, console, devs>>
       ELSE \E o \in SaveOutcomes :
            LET after_json == [files EXCEPT ![JsonFile] = JsonContent]
                after_csv == [after_json EXCEPT ![output_file] = CsvContent]
            IN  /\ Deviate(o = "ok")
                /\ files' = CASE o = "ok" -> after_csv
                              [] o = "csv_open_fails" -> after_json
                              [] OTHER -> files
                /\ console' = console \o
                      (CASE o = "ok" /\ ~RowRaises -> <<"raw_saved", "csv_saved">>
                         [] o = "ok" /\ RowRaises -> <<"raw_saved", "save_error">>
                         [] o = "csv_open_fails" -> <<"raw_saved", "save_error">>
                         [] OTHER -> <<"save_error">>)
    /\ pc' = AfterReporting
    /\ UNCHANGED <<config, tester, i, iteration_results, calls, exc, summary,
                   local>>

\* --------------------------------------------------------- _print_summary
\* The list a loop of _print_summary collects with
\*     if rec.get(field) is not None: values.append(rec[field])
ValuesNotNone(key, field) ==
    LET recs == [k \in 1..Len(results) |-> Get(results[k], key, EmptyDict)]
        kept == SelectSeq(recs, LAMBDA r : Get(r, field, None) # None)
    IN  [k \in 1..Len(kept) |-> kept[k][field]]

\* The list a loop of _print_summary collects with
\*     if field in rec: values.append(rec[field])
ValuesIfKey(key, field) ==
    LET recs == [k \in 1..Len(results) |-> Get(results[k], key, EmptyDict)]
        kept == SelectSeq(recs, LAMBDA r : field \in DOMAIN r)
    IN  [k \in 1..Len(kept) |-> kept[k][field]]

\* statistics.mean(values) raises: StatisticsError on no data, TypeError on a
\* None among the values.
MeanRaises(values) == values = <<>> \/ None \in SeqRange(values)

\* FullBlock as a bug would have it: a StdDev line of 0 for a single value.
FullBlockZeroStdev(metric, values) ==
    LET b == [metric |-> metric, n |-> Len(values), mean |-> Mean(values),
              min |-> MinSeq(values), max |-> MaxSeq(values)]
    IN  SetKey(b, "stdev", IF Len(values) > 1 THEN Stdev(values) ELSE 0)

\* A block with average, min, max and, for more than one value, StdDev.
FullBlock(metric, values) ==
    LET b == [metric |-> metric, n |-> Len(values), mean |-> Mean(values),
              min |-> MinSeq(values), max |-> MaxSeq(values)]
    IN  IF Len(values) > 1 THEN SetKey(b, "stdev", Stdev(values)) ELSE b

\* The lists of the statistics loops, in the order of the function.
latency_avgs == ValuesNotNone("latency_test", "avg")
jitter_avgs == ValuesNotNone("latency_test", "jitter")
tcp_upload_speeds == ValuesIfKey("iperf_tcp_upload", "mbps")
tcp_download_speeds == ValuesIfKey("iperf_tcp_download", "mbps")
udp_speeds == ValuesIfKey("iperf_udp_test", "mbps")
udp_jitters == ValuesIfKey("iperf_udp_test", "jitter_ms")
udp_losses == ValuesIfKey("iperf_udp_test", "lost_percent")
download_speeds == ValuesIfKey("speedtest", "download_mbps")
upload_speeds == ValuesIfKey("speedtest", "upload_mbps")
pings == ValuesIfKey("speedtest", "ping_ms")
transfer_speeds == ValuesIfKey("local_transfer", "transfer_speed_mbps")

\* The lists whose statistics the function prints: a block is printed when
\* its first list is not empty.
PrintedLists ==
    (IF latency_avgs # <<>> THEN {latency_avgs} ELSE {})
    \cup (IF jitter_avgs # <<>> THEN {jitter_avgs} ELSE {})
    \cup (IF iperf_server /\ tcp_upload_speeds # <<>>
          THEN {tcp_upload_speeds} ELSE {})
    \cup (IF iperf_server /\ tcp_download_speeds # <<>>
          THEN {tcp_download_speeds} ELSE {})
    \cup (IF iperf_server /\ udp_speeds # <<>>
          THEN {udp_speeds}
               \cup (IF udp_jitters # <<>> THEN {udp_jitters} ELSE {})
               \cup (IF udp_losses # <<>> THEN {udp_losses} ELSE {})
          ELSE {})
    \cup (IF should_run_speedtest /\ download_speeds # <<>>
          THEN {download_speeds, upload_speeds, pings} ELSE {})
    \cup (IF run_local_test /\ transfer_speeds # <<>>
          THEN {transfer_speeds} ELSE {})

SummaryRaises == \E values \in PrintedLists : MeanRaises(values)

UdpBlock ==
    LET b0 == [metric |-> "udp_mbps", n |-> Len(udp_speeds),
               mean |-> Mean(udp_speeds)]
        b1 == IF udp_jitters # <<>>
              THEN SetKey(b0, "jitter_mean", Mean(udp_jitters)) ELSE b0
    IN  IF udp_losses # <<>>
        THEN SetKey(b1, "loss_mean", Mean(udp_losses)) ELSE b1

SpeedtestBlock ==
    [metric |-> "internet", n |-> Len(download_speeds),
     mean |-> Mean(download_speeds), upload_mean |-> Mean(upload_speeds),
     ping_mean |-> Mean(pings)]

\* The blocks _print_summary prints, in order.
SummaryBlocks ==
    (IF latency_avgs # <<>>
     THEN <<FullBlock("latency", latency_avgs)>> ELSE <<>>)
    \o (IF jitter_avgs # <<>>
        THEN <<FullBlock("jitter", jitter_avgs)>> ELSE <<>>)
    \o (IF iperf_server /\ tcp_upload_speeds # <<>>
        THEN <<FullBlock("tcp_upload_mbps", tcp_upload_speeds)>> ELSE <<>>)
    \o (IF iperf_server /\ tcp_download_speeds # <<>>
        THEN <<FullBlock("tcp_download_mbps", tcp_download_speeds)>> ELSE <<>>)
    \o (IF iperf_server /\ udp_speeds # <<>> THEN <<UdpBlock>> ELSE <<>>)
    \o (IF should_run_speedtest /\ download_speeds # <<>>
        THEN <<SpeedtestBlock>> ELSE <<>>)
    \o (IF run_local_test /\ transfer_speeds # <<>>
        THEN <<FullBlock("local_transfer_mbps", transfer_speeds)>> ELSE <<>>)

_print_summary ==
    /\ pc = "summary"
    /\ console' = Append(console, "summary")
    /\ IF SummaryRaises
       THEN Stop("TypeError") /\ UNCHANGED summary
       ELSE /\ summary' = SummaryBlocks
            /\ pc' = AfterReporting
            /\ UNCHANGED exc
    /\ UNCHANGED <<config, tester, i, iteration_results, calls, devs, files,
                   local>>

Next ==
    \/ GetSystemInfo
    \/ CheckIperf3
    \/ CheckSpeedtest
    \/ PrintWarnings
    \/ BeginIteration
    \/ LatencyTest
    \/ TcpUploadTest
    \/ TcpDownloadTest
    \/ UdpTest
    \/ SpeedTest
    \/ LocalStart
    \/ LtCreateFile
    \/ LtStartServer
    \/ LtSleep
    \/ LtDownload
    \/ LtWait
    \/ LtRemove
    \/ AppendResult
    \/ Sleep
    \/ _save_results
    \/ _print_summary

Spec == Init /\ [][Next]_vars

\* ================================================================= claims
\* The keys run_tests stores the records of the three tool adapters under.
IperfKeys == {"iperf_tcp_upload", "iperf_tcp_download", "iperf_udp_test"}
AdapterKeys == {"latency_test", "speedtest"} \cup IperfKeys

\* run_tests has left the loop and is reporting, or has finished.
InReporting == pc \in {"save", "summary", "done"}

\* ---- C1
\* C1: whatever the adapters return in whatever iteration, run_tests does
\* not raise on a returned record and reaches reporting with one result per
\* configured iteration.
C1_AllIterationsRun ==
    /\ exc # "TypeError"
    /\ InReporting => Len(results) = iterations

\* ---- C2
\* The values of a metric over the iterations where it is present and
\* numeric.
NumericValues(key, field) ==
    LET recs == [k \in 1..Len(results) |-> Get(results[k], key, EmptyDict)]
        kept == SelectSeq(recs, LAMBDA r : field \in DOMAIN r /\ r[field] # None)
    IN  [k \in 1..Len(kept) |-> kept[k][field]]

\* The blocks of the printed summary for a metric.
BlocksOf(metric) == SelectSeq(summary, LAMBDA b : b.metric = metric)

\* (block, key, field) of every summarised metric with a block of its own.
SummarisedMetrics ==
    { <<"latency", "latency_test", "avg">>,
      <<"jitter", "latency_test", "jitter">> }
    \cup (IF iperf_server
          THEN { <<"tcp_upload_mbps", "iperf_tcp_upload", "mbps">>,
                 <<"tcp_download_mbps", "iperf_tcp_download", "mbps">>,
                 <<"udp_mbps", "iperf_udp_test", "mbps">> }
          ELSE {})
    \cup (IF should_run_speedtest
          THEN { <<"internet", "speedtest", "download_mbps">> } ELSE {})
    \cup (IF run_local_test
          THEN { <<"local_transfer_mbps", "local_transfer",
                   "transfer_speed_mbps">> }
          ELSE {})

\* The summary holds, for every metric, the statistics of exactly the
\* present numeric values, and no block for a metric without any.
SummaryOverPresentValues ==
    \A m \in SummarisedMetrics :
        LET values == NumericValues(m[2], m[3])
            blocks == BlocksOf(m[1])
        IN  IF values = <<>> THEN blocks = <<>>
            ELSE /\ Len(blocks) = 1
                 /\ blocks[1].n = Len(values)
                 /\ blocks[1].mean = Mean(values)
                 /\ m[1] = "internet" =>
                        /\ blocks[1].upload_mean =
                               Mean(NumericValues("speedtest", "upload_mbps"))
                        /\ blocks[1].ping_mean =
                               Mean(NumericValues("speedtest", "ping_ms"))

\* C2: once the run is over (finished, or stopped by an exception of its
\* own code), the summary statistics of every metric are those of the
\* iterations where the metric is present and numeric; an iteration where
\* it is absent or null neither enters nor prevents them.
C2_StatisticsOverPresentValues ==
    (pc = "done" \/ (pc = "aborted" /\ exc = "TypeError"))
        => SummaryOverPresentValues

\* ---- C3
\* The positions inside run_local_transfer_test.
LocalPcs == {"lt_create", "lt_popen", "lt_sleep", "lt_curl", "lt_wait",
             "lt_remove"}

\* C3: once run_local_transfer_test has been left, however it was left, the
\* server has exited or was force-killed and the temporary file is gone.
C3_CleanupOnEveryExit ==
    (pc \notin LocalPcs /\ pc # "blocked")
        => /\ server \in {"none", "exited", "killed"}
           /\ ~temp_file

\* ---- C4
\* The local-transfer call has returned to run_tests and every process it
\* started did its work.
LocalTransferRanUndisturbed ==
    /\ pc = "append"
    /\ run_local_test
    /\ get_local_network_ip # ""
    /\ "local_transfer" \in DOMAIN iteration_results
    /\ \E k \in DOMAIN calls : calls[k].cmd = ServerCmd
    /\ \A k \in DOMAIN calls : calls[k].outcome \in {"exit0", "started"}

\* C4: with the feature enabled, an address found, and file creation,
\* server start and download not failing, the record has no error and
\* carries file_size_mb, elapsed_seconds and
\* transfer_speed_mbps = size_mb * 8 / elapsed_seconds.
C4_LocalTransferRecord ==
    LocalTransferRanUndisturbed
        => LET rec == iteration_results.local_transfer
           IN  /\ "error" \notin DOMAIN rec
               /\ {"file_size_mb", "elapsed_seconds", "transfer_speed_mbps"}
                     \subseteq DOMAIN rec
               /\ rec.transfer_speed_mbps =
                     (rec.file_size_mb * 8) \div rec.elapsed_seconds

\* ---- C5
\* An error message that tells of a timeout.
TimeoutMessage(m) == m \in {"Timeout expired", StrOf("TimeoutExpired")}

\* C5: in the latency, throughput and internet-speed adapters, an
\* invocation that ran into its timeout is the last process the adapter
\* call started, and the call returned an error record whose message tells
\* of the timeout.
C5_TimeoutEndsTheAdapterCall ==
    \A k \in DOMAIN calls :
        (calls[k].by \in AdapterKeys /\ calls[k].outcome = "hang")
            => /\ k = Len(calls)
               /\ calls[k].by \in DOMAIN iteration_results
               /\ "error" \in DOMAIN iteration_results[calls[k].by]
               /\ TimeoutMessage(iteration_results[calls[k].by].error)

\* ---- C6
\* C6: every process the program waits for was started with a timeout, and
\* the program is never blocked in a call that does not return.
C6_EveryInvocationTimeBounded ==
    /\ \A k \in DOMAIN calls :
          calls[k].cmd # ServerCmd => calls[k].timeout # NoTimeout
    /\ pc # "blocked"

\* ---- C7
\* _save_results has run and reported both files as saved.
SaveReportedSuccess ==
    /\ output_file # <<>>
    /\ "csv_saved" \in SeqRange(console)

\* C7: after a save that reported success, the raw-results file and the
\* tabular file are two different files, each holding what was written to
\* it from the results.
C7_TwoDistinctFiles ==
    SaveReportedSuccess
        => /\ JsonFile # output_file
           /\ files[JsonFile] = JsonContent
           /\ files[output_file] = CsvContent

\* ---- C8
BaseColumns ==
    <<"timestamp", "iteration", "latency_min_ms", "latency_avg_ms",
      "latency_max_ms", "jitter_ms", "packet_loss">>
ThroughputColumns ==
    <<"tcp_upload_mbps", "tcp_download_mbps", "tcp_upload_retransmits",
      "tcp_download_retransmits", "udp_mbps", "udp_jitter_ms",
      "udp_loss_percent">>
InternetColumns ==
    <<"internet_download_mbps", "internet_upload_mbps", "internet_ping_ms",
      "internet_jitter_ms">>
LocalColumns == <<"local_transfer_mbps", "local_transfer_time_s">>

\* The header as a function of the three feature flags and nothing else.
HeaderOf(server_given, speedtest_enabled, local_enabled) ==
    BaseColumns
    \o (IF server_given THEN ThroughputColumns ELSE <<>>)
    \o (IF speedtest_enabled THEN InternetColumns ELSE <<>>)
    \o (IF local_enabled THEN LocalColumns ELSE <<>>)

\* C8: the header of every tabular file written is the function HeaderOf of
\* the feature flags alone (so equal flags give equal headers, whatever the
\* iteration count, the tools found and the adapter outcomes): throughput
\* columns iff a server was given, internet-speed columns iff the speed test
\* is enabled, local-transfer columns iff the local test is enabled.
C8_HeaderFromFeatureFlags ==
    \A p \in Paths :
        files[p].kind = "csv"
            => /\ files[p].header =
                     HeaderOf(iperf_server, should_run_speedtest, run_local_test)
               /\ ~iperf_server =>
                     SeqRange(files[p].header) \cap SeqRange(ThroughputColumns) = {}
               /\ iperf_server =>
                     SeqRange(ThroughputColumns) \subseteq SeqRange(files[p].header)

\* A tabular file written by a run without --server, with the speed test
\* enabled but its tool missing, after an iteration ran.
C8_Witness ==
    /\ output_file \in Paths
    /\ files[output_file].kind = "csv"
    /\ ~iperf_server
    /\ should_run_speedtest
    /\ ~has_speedtest
    /\ run_local_test
    /\ Len(results) >= 2
    /\ files[output_file].rows # <<>>

\* ---- C9
SaveMessages == {"csv_saved", "save_error"}

\* C9 as stated: when an output file has been written or a persistence
\* failure reported, the console summary has already been printed.
C9_SummaryBeforeSave ==
    ((\E p \in Paths : files[p] # NoFile) \/ "save_error" \in SeqRange(console))
        => "summary" \in SeqRange(console)

\* C9 amended: the summary is printed after _save_results has run: with an
\* output path, its success or failure message precedes the summary on the
\* console and nothing is written after the summary; a reported persistence
\* failure does not keep the summary from being printed.
C9_SaveBeforeSummary ==
    /\ \A k \in DOMAIN console :
          console[k] = "summary"
              => /\ output_file # <<>> =>
                       \E j \in 1..(k - 1) : console[j] \in SaveMessages
                 /\ \A j \in (k + 1)..Len(console) : console[j] \notin SaveMessages
                 /\ output_file = <<>> => \A p \in Paths : files[p] = NoFile
    /\ (pc = "done" /\ "save_error" \in SeqRange(console))
          => "summary" \in SeqRange(console)

\* A finished run whose save failed and whose summary was printed.
C9_Witness ==
    /\ pc = "done"
    /\ "save_error" \in SeqRange(console)
    /\ "summary" \in SeqRange(console)
    /\ summary # <<>>

\* ---- C10
\* The record of a tool output that was no JSON and in which the fallback
\* scan found none of the values.
TotalParseFailure(rec, fields) ==
    /\ "parse_error" \in DOMAIN rec
    /\ \A f \in fields : rec[f] = None

\* C10: a total parse failure of the bandwidth tool or the speed-test tool
\* is returned as an error record with the raw output attached.
C10_ParseFailureIsAnErrorRecord ==
    \A key \in DOMAIN iteration_results \cap (IperfKeys \cup {"speedtest"}) :
        LET rec == iteration_results[key]
            fields == IF key = "speedtest"
                      THEN {"download_mbps", "upload_mbps", "ping_ms"}
                      ELSE {"mbps"}
        IN  TotalParseFailure(rec, fields)
                => "error" \in DOMAIN rec /\ "output" \in DOMAIN rec

\* ---- C11
\* The adapters in the order run_tests calls them, by the key their record
\* is stored under.
AdapterOrder ==
    <<"latency_test", "iperf_tcp_upload", "iperf_tcp_download",
      "iperf_udp_test", "speedtest", "local_transfer">>

\* The adapters the configuration enables, in that order.
EnabledOrder ==
    SelectSeq(AdapterOrder,
              LAMBDA k : \/ k = "latency_test"
                         \/ k \in IperfKeys /\ iperf_server
                         \/ k = "speedtest" /\ should_run_speedtest
                         \/ k = "local_transfer" /\ run_local_test)

\* The adapters of the current pass whose record is stored.
Invoked == DOMAIN iteration_results \cap SeqRange(AdapterOrder)

\* The first n enabled adapters.
FirstEnabled(n) == {EnabledOrder[k] : k \in 1..n}

\* The adapter the thread of control is about to call or is inside of.
AtAdapter ==
    CASE pc = "latency" -> "latency_test"
      [] pc \in IperfKeys \cup {"speedtest", "local_transfer"} -> pc
      [] pc \in LocalPcs -> "local_transfer"
      [] OTHER -> "none"

\* C11: in every pass the records stored are those of a prefix of the
\* enabled adapters in the fixed order latency, TCP upload, TCP download,
\* UDP, internet speed, local transfer: an adapter is entered only when
\* exactly the enabled adapters before it have returned, the pass is
\* appended only when all enabled adapters have returned, a pass is begun
\* only when all earlier passes are appended, and the processes alive or
\* logged at any time belong to one adapter call.
C11_AdaptersInFixedOrder ==
    /\ \E n \in 0..Len(EnabledOrder) : Invoked = FirstEnabled(n)
    /\ AtAdapter # "none" =>
          /\ \E n \in 1..Len(EnabledOrder) :
                /\ EnabledOrder[n] = AtAdapter
                /\ Invoked = FirstEnabled(n - 1)
          /\ iteration_results.iteration = Len(results) + 1
    /\ pc = "append" =>
          /\ Invoked = SeqRange(EnabledOrder)
          /\ iteration_results.iteration = Len(results) + 1
    /\ \A j, k \in DOMAIN calls : calls[j].by = calls[k].by
    /\ server = "running" => pc \in LocalPcs

\* The second pass is about to be appended after all six adapters returned.
C11_Witness ==
    /\ pc = "append"
    /\ Len(results) = 1
    /\ Invoked = SeqRange(AdapterOrder)
    /\ Len(EnabledOrder) = 6

\* ---- C12
\* The command lines of the tool-availability probes.
ProbeCmds ==
    {"iperf3 --version", "speedtest-cli --version", "speedtest --version"}

\* The ways a probe fails: not found, non-zero exit, operating-system error
\* when launching.
ProbeFailures == {"notfound", "nonzero", "permission"}

\* C12: a tool is marked available only when its probe exited with code 0,
\* and a probe that fails to launch or exits non-zero marks it unavailable
\* without an exception leaving tool detection.
C12_ProbeFailureNeverPropagates ==
    /\ pc = "check_speedtest" => has_iperf3 = (calls[1].outcome = "exit0")
    /\ pc = "warn" =>
          has_speedtest = (\E k \in DOMAIN calls : calls[k].outcome = "exit0")
    /\ \A k \in DOMAIN calls :
          (calls[k].cmd \in ProbeCmds /\ calls[k].outcome \in ProbeFailures)
              => pc # "aborted"

\* ==================================================== the parsers alone
\* The first pass of a run with the speed test and the local test enabled,
\* where the interfaces found at construction and the outputs of ping and
\* of the speed-test tool are drawn from bounded sets; the outputs are kept,
\* with the process that printed them, in calls.
MaxSamples == 4
MaxInterfaces == 2

\* Addresses interface enumeration can report.
AddressValues == {Loopback, "::1", "", LanIp, LanIp2}

\* The name of the k-th interface found.
IfaceName(k) == CASE k = 1 -> "if1" [] k = 2 -> "if2" [] OTHER -> "if3"

\* The interface mappings, in enumeration order.
InterfaceSeqs ==
    UNION { { [k \in 1..n |-> [iface |-> IfaceName(k), ip |-> a[k]]] :
                a \in [1..n -> AddressValues] } : n \in 0..MaxInterfaces }

\* Round-trip times a ping line can carry.
SampleValues == {10, 25, 70}

\* The parsed samples of one ping run, in arrival order.
SampleSeqs == UNION {[1..n -> SampleValues] : n \in 0..MaxSamples}

\* Bandwidth figures the speed-test tools report.
Bandwidths == {Million, 12 * Million, 125 * Million}

\* The processes a call started, with the output they printed.
WithOutput(name, started, out) ==
    [k \in 1..Len(started) |->
        [by |-> name, cmd |-> started[k].cmd, timeout |-> started[k].timeout,
         outcome |-> started[k].outcome, out |-> out]]

ParserInit ==
    /\ platform = "Linux"
    /\ iterations = 1
    /\ output_file = <<>>
    /\ iperf_server = FALSE
    /\ should_run_speedtest = TRUE
    /\ run_local_test = TRUE
    /\ system_info \in {[interfaces |-> l] : l \in InterfaceSeqs}
    /\ has_iperf3 = FALSE
    /\ has_speedtest = TRUE
    /\ results = <<>>
    /\ pc = "latency"
    /\ i = 0
    /\ iteration_results = [timestamp |-> "now", iteration |-> 1]
    /\ calls = <<>>
    /\ devs = 0
    /\ exc = "none"
    /\ console = <<>>
    /\ files = [p \in Paths |-> NoFile]
    /\ summary = <<>>
    /\ temp_file = FALSE
    /\ server = "none"
    /\ lt = [exc |-> "none", ret |-> <<>>]

\* latency_result = self.run_latency_jitter_test(...) on a ping that exits 0
\* after printing the samples.
ParsePing ==
    /\ pc = "latency"
    /\ \E times \in SampleSeqs :
        LET o == Exit0(PingOut(times, "0%"))
            r == run_latency_jitter_test(o)
        IN  /\ iteration_results' = SetKey(iteration_results, "latency_test", r.rec)
            /\ calls' = WithOutput("latency_test", r.calls, o.out)
            /\ IF LatencyPrintRaises(r.rec)
               THEN Stop("TypeError")
               ELSE pc' = AfterLatency /\ UNCHANGED exc
    /\ UNCHANGED <<config, tester, i, devs, console, files, summary, local>>

\* speed_test = self.run_speedtest() on a speedtest-cli that exits 0 after
\* printing a JSON document of the older or of the newer schema.
ParseSpeedtest ==
    /\ pc = "speedtest"
    /\ \E b \in Bandwidths, schema \in {"old", "new"} :
        LET doc == IF schema = "old" THEN OldDoc(b, b, 15) ELSE NewDoc(b, b, 15)
            o == Exit0(doc)
            r == run_speedtest(o, NominalSpeedtest)
        IN  /\ iteration_results' = SetKey(iteration_results, "speedtest", r.rec)
            /\ calls' = WithOutput("speedtest", r.calls, o.out)
            /\ IF SpeedtestPrintRaises(r.rec)
               THEN Stop("TypeError")
               ELSE pc' = AfterSpeedtest /\ UNCHANGED exc
    /\ UNCHANGED <<config, tester, i, devs, console, files, summary, local>>

ParserNext ==
    \/ ParsePing
    \/ ParseSpeedtest
    \/ LocalStart
    \/ LtCreateFile
    \/ LtStartServer
    \/ LtSleep
    \/ LtDownload
    \/ LtWait
    \/ LtRemove

ParserSpec == ParserInit /\ [][ParserNext]_vars

\* ---- C13
\* The sum of |t[k+1] - t[k]| over the first n consecutive pairs of t.
RECURSIVE SumOfSteps(_, _)
SumOfSteps(t, n) ==
    IF n = 0 THEN 0
    ELSE SumOfSteps(t, n - 1) +
         (IF t[n + 1] >= t[n] THEN t[n + 1] - t[n] ELSE t[n] - t[n + 1])

\* The samples ping printed in the latency call whose record is stored.
PingSamples == calls[1].out.times

\* The latency call has returned and its record is stored.
PingParsed ==
    /\ "latency_test" \in DOMAIN iteration_results
    /\ calls # <<>>
    /\ calls[1].by = "latency_test"

\* C13: for n >= 2 parsed samples the record's jitter is the sum of the
\* absolute differences of consecutive samples, in arrival order, divided
\* by n - 1; for a single sample it is 0.
C13_JitterOfConsecutiveSamples ==
    PingParsed =>
        LET t == PingSamples
            rec == iteration_results.latency_test
        IN  /\ Len(t) >= 2 =>
                  rec.jitter = SumOfSteps(t, Len(t) - 1) \div (Len(t) - 1)
            /\ Len(t) = 1 => rec.jitter = 0

\* Samples that go up and down, where the mean step differs from the mean
\* deviation from the average.
C13_Witness ==
    /\ PingParsed
    /\ PingSamples = <<10, 70, 10>>
    /\ iteration_results.latency_test.jitter = 60

\* ---- C14
\* The latency records of the run: the stored passes and the current one.
LatencyRecords ==
    {results[k].latency_test : k \in DOMAIN results}
    \cup (IF "latency_test" \in DOMAIN iteration_results
          THEN {iteration_results.latency_test} ELSE {})

\* The summary blocks as a set.
Blocks == SeqRange(summary)

\* C14 as stated: with fewer than 2 samples the standard deviation reported
\* is 0, in the latency record and in every block of the summary.
C14_StdevZeroBelowTwoSamples ==
    /\ \A rec \in LatencyRecords :
          ("error" \notin DOMAIN rec /\ rec.samples < 2) => rec.mdev = 0
    /\ \A b \in Blocks :
          b.n < 2 => "stdev" \in DOMAIN b /\ b.stdev = 0

\* C14 amended: with fewer than 2 samples nothing raises; the latency
\* record's standard deviation is 0 for exactly one sample and null, like
\* its other statistics, for none; the summary prints a standard deviation
\* only in a block with at least 2 values and leaves the line out for one
\* value (a metric without values has no block at all).
C14_StdevBelowTwoSamples ==
    /\ \A rec \in LatencyRecords :
          "error" \notin DOMAIN rec =>
              /\ rec.samples = 1 => rec.mdev = 0
              /\ rec.samples = 0 => rec.mdev = None /\ rec.avg = None
              /\ rec.samples >= 2 => rec.mdev # None
    /\ \A b \in Blocks :
          /\ b.n >= 1
          /\ b.n < 2 => "stdev" \notin DOMAIN b
          /\ "stdev" \in DOMAIN b => b.n >= 2
    /\ "summary" \in SeqRange(console) => exc = "none"

\* A finished run of one pass whose ping gave a single sample.
C14_Witness ==
    /\ pc = "done"
    /\ Len(results) = 1
    /\ results[1].latency_test.samples = 1
    /\ results[1].latency_test.mdev = 0
    /\ \E b \in Blocks : b.metric = "latency" /\ b.n = 1

\* ---- C15
\* The speed-test call has returned a record of a JSON document.
SpeedtestParsed ==
    /\ "speedtest" \in DOMAIN iteration_results
    /\ calls # <<>>
    /\ calls[1].by = "speedtest"
    /\ calls[1].out.json

\* The document is of the newer schema: download is an object.
NewerSchema(out) == "download" \in out.dicts

\* The download and upload figures of the document, whatever the schema.
ReportedDownload(out) ==
    IF NewerSchema(out) THEN out.doc.download.bandwidth ELSE out.doc.download
ReportedUpload(out) ==
    IF NewerSchema(out) THEN out.doc.upload.bandwidth ELSE out.doc.upload

\* C15 as stated: a figure b, in either schema, gives b * 8 / 1,000,000.
C15_BothSchemasTimesEight ==
    SpeedtestParsed =>
        LET out == calls[1].out
            rec == iteration_results.speedtest
        IN  /\ rec.download_mbps = (ReportedDownload(out) * 8) \div 1000000
            /\ rec.upload_mbps = (ReportedUpload(out) * 8) \div 1000000

\* C15 amended: the nested bandwidth of the newer schema is taken as bytes
\* per second (b * 8 / 1,000,000); the top-level figure of the older schema
\* is taken as bits per second (b / 1,000,000), so the same figure gives
\* an eight times larger value in the newer schema than in the older one.
C15_SchemaDecidesTheUnit ==
    SpeedtestParsed =>
        LET out == calls[1].out
            rec == iteration_results.speedtest
        IN  IF NewerSchema(out)
            THEN /\ rec.download_mbps = (ReportedDownload(out) * 8) \div 1000000
                 /\ rec.upload_mbps = (ReportedUpload(out) * 8) \div 1000000
            ELSE /\ rec.download_mbps = ReportedDownload(out) \div 1000000
                 /\ rec.upload_mbps = ReportedUpload(out) \div 1000000

\* A document of the older schema reporting 12,000,000 was parsed to 12.
C15_Witness ==
    /\ SpeedtestParsed
    /\ ~NewerSchema(calls[1].out)
    /\ ReportedDownload(calls[1].out) = 12 * Million
    /\ iteration_results.speedtest.download_mbps = 12
    /\ "error" \notin DOMAIN iteration_results.speedtest

\* ---- C16
\* The positions inside a pass.
PassPcs ==
    {"latency", "speedtest", "local_transfer", "append"} \cup IperfKeys
    \cup LocalPcs

\* The passes run so far have the indices 1, 2, ... in increasing order, and
\* there are never more than the configured number.
PassesInOrder ==
    /\ Len(results) <= iterations
    /\ \A k \in DOMAIN results : results[k].iteration = k
    /\ pc \in PassPcs =>
          /\ iteration_results.iteration = i + 1
          /\ iteration_results.iteration \in 1..iterations
    /\ InReporting => Len(results) = iterations /\ i = iterations

\* The program pauses only between two passes.
PauseBetweenPasses ==
    pc = "sleep" => Len(results) \in 1..(iterations - 1) /\ i = Len(results) - 1

\* With no iteration configured no pass is begun and nothing is paused for.
NoPassWithoutIterations ==
    iterations = 0 => pc \notin PassPcs \cup {"sleep"} /\ results = <<>>

\* A pass that was appended is followed by a pause exactly when it is not
\* the last one; a pause is entered only from there, and is followed by the
\* next pass.
PauseAfterEachPassButTheLast ==
    /\ pc = "append" => (pc' = "sleep" <=> Len(results') < iterations)
    /\ pc' = "sleep" => pc = "append"
    /\ (pc = "sleep" /\ pc' # "aborted") => pc' = "loop" /\ i' = i + 1
    /\ pc' = "latency" => pc = "loop" /\ i < iterations

\* With no iteration configured the program always has a next step from the
\* loop to the end of reporting, and that step is the one towards the end.
EmptyRunCanStep ==
    (iterations = 0 /\ pc \in {"loop", "save", "summary"}) => ENABLED Next

EmptyRunSteps ==
    iterations = 0 =>
        /\ pc = "loop" => pc' = "save"
        /\ pc = "save" => pc' = "summary"
        /\ pc = "summary" => pc' = "done"

\* C16: a run configured for N iterations runs the passes 1..N in
\* increasing order and no other, pauses once after each pass but the last
\* and nowhere else, and with N = 0 runs no pass, never pauses, and goes on
\* from the loop through reporting to the end.
C16_ExactlyNPasses ==
    /\ [](PassesInOrder /\ PauseBetweenPasses /\ NoPassWithoutIterations)
    /\ [](EmptyRunCanStep)
    /\ [][PauseAfterEachPassButTheLast /\ EmptyRunSteps]_vars

\* The pause after the first of three passes.
C16_Witness ==
    /\ pc = "sleep"
    /\ iterations = 3
    /\ Len(results) = 1

\* ---- C17
\* The entries of the result sequence carry their position as index.
EntriesIndexed == \A k \in DOMAIN results : results[k].iteration = k

\* A step leaves the result sequence alone or is the append that ends a
\* pass of run_tests: the entries already there stay as they are, and the
\* new last entry is the dict of the pass.
AppendOnly ==
    \/ results' = results
    \/ /\ pc = "append"
       /\ Len(results') = Len(results) + 1
       /\ \A k \in DOMAIN results : results'[k] = results[k]
       /\ results'[Len(results')] = iteration_results

\* Reporting begins only after the last append and changes neither the
\* results nor the system-info snapshot.
ReportingOnlyReads ==
    /\ pc' \in {"save", "summary"} => Len(results) = iterations
    /\ pc \in {"save", "summary", "done"} =>
          results' = results /\ system_info' = system_info

\* C17: the result sequence only grows, by the append that ends a pass of
\* run_tests; the k-th entry has index k and is never changed afterwards;
\* _save_results and _print_summary run after the final append and leave
\* the sequence and the system-info snapshot as they were.
C17_ResultsAppendOnly ==
    /\ []EntriesIndexed
    /\ [][AppendOnly /\ ReportingOnlyReads]_vars

\* A finished run of two passes whose files were written.
C17_Witness ==
    /\ pc = "done"
    /\ Len(results) = 2
    /\ output_file \in Paths
    /\ files[output_file] # NoFile
    /\ summary # <<>>

\* ---- C18
\* The first address from position k on that is non-empty and no loopback
\* address; "" (for None) when there is none.
RECURSIVE FirstUsableFrom(_, _)
FirstUsableFrom(l, k) ==
    IF k > Len(l) THEN ""
    ELSE IF l[k].ip \notin {"", Loopback, "::1"} THEN l[k].ip
    ELSE FirstUsableFrom(l, k + 1)

FirstUsable == FirstUsableFrom(system_info.interfaces, 1)

\* The commands that create the temporary file and start the server.
LocalSetupCmds == {"dd", ServerCmd}

NumericFields(key) ==
    CASE key \in IperfKeys -> {"mbps", "jitter_ms", "lost_percent"}
      [] key = "speedtest" -> {"download_mbps", "upload_mbps", "ping_ms"}
      [] key = "local_transfer" -> {"transfer_speed_mbps", "elapsed_seconds"}

\* C19: a record that the throughput, internet-speed or local-transfer
\* adapter returned without an 'error' field has a number, not null, in
\* every one of these fields it carries.
C19_NoNullInSuccessRecords ==
    \A key \in DOMAIN iteration_results
               \cap (IperfKeys \cup {"speedtest", "local_transfer"}) :
        LET rec == iteration_results[key]
        IN  "error" \notin DOMAIN rec =>
                \A f \in NumericFields(key) \cap DOMAIN rec : rec[f] # None

\* ---- C20
\* Something was persisted or _save_results has reported.
Persisted ==
    \/ \E p \in Paths : files[p] # NoFile
    \/ \E k \in DOMAIN console :
          console[k] \in {"raw_saved", "csv_saved", "save_error"}

\* Files are written by _save_results only, which is entered once, from the
\* loop, after the last append.
SavedOnceAtTheEnd ==
    /\ files' # files => pc = "save"
    /\ pc' = "save" => pc = "loop" /\ Len(results) = iterations
    /\ pc = "save" => pc' # "save"

\* C20: nothing is persisted before all N passes are appended;
\* _save_results is entered at most once, after the last append; a run that
\* stops in a pass or in the pause between passes has persisted nothing.
C20_NothingPersistedBeforeTheEnd ==
    /\ [](Persisted => Len(results) = iterations /\ pc \in {"summary", "done"})
    /\ [](pc \in {"aborted", "blocked"} => ~Persisted)
    /\ [](Cardinality({k \in DOMAIN console : console[k] = "raw_saved"}) <= 1)
    /\ [][SavedOnceAtTheEnd]_vars

\* A run with an output path, interrupted after two completed passes.
C20_Witness ==
    /\ pc = "aborted"
    /\ exc = "KeyboardInterrupt"
    /\ Len(results) = 2
    /\ output_file = CsvPath
    /\ ~Persisted

\* ---- C21
\* C21: the 'speedtest-cli not found' warning of the constructor is on the
\* console only when the speed-test tool is unavailable and the
\* internet-speed test is enabled; with the test disabled it is never
\* printed.
C21_SpeedtestWarningOnlyWhenEnabled ==
    "warn_speedtest" \in SeqRange(console)
        => ~has_speedtest /\ should_run_speedtest

====
